---- MODULE Spec2Model ----
(***************************************************************************)
(* Browser-driven flow of the token vault proxy:                           *)
(*   /authorize/:tenantId -> /callback -> [/connected_account_callback]    *)
(*   -> /token                                                             *)
(* with the in-memory correlation caches the handlers share.               *)
(*                                                                         *)
(* The source holds two generations of the /authorize and /callback        *)
(* handlers.  Generation "oidc" (routes/oidc_callback.js) keeps its        *)
(* entries in the oidc_cache map; generation "outbound"                    *)
(* (routes/authorize.js and the older /callback) keeps them in the         *)
(* outbound_request_cache map.  /connected_account_callback reads the      *)
(* outbound_request_cache map only.  The two maps are distinct objects.    *)
(*                                                                         *)
(* Handlers run on one event loop: a handler is atomic between two awaits. *)
(* Every await of an upstream call is a separate step whose outcome is     *)
(* chosen by the environment.  What a handler answers in a step is an      *)
(* operator of the state the step starts in and of the request.            *)
(*                                                                         *)
(* Spec explores concurrent logins within one millisecond; SpecTimed       *)
(* explores one login under a clock that moves between any two steps;      *)
(* SpecTenants explores one login while tenants.json is edited.            *)
(*                                                                         *)
(* SpecProxy explores the forwarder ANY /:tenantId/* (the route with the   *)
(* vault exchange): requests that come in through tenantMiddleware and     *)
(* authMiddleware as main.js mounts them, and, each on its own inputs,     *)
(* authorizeRequest and the route handler behind the middlewares.          *)
(* SpecKeys explores authorizeRequest and its signing-key cache under a    *)
(* moving clock; SpecAssertions explores generateClientAssertion.          *)
(***************************************************************************)
EXTENDS Integers, Sequences, FiniteSets, TLC

\* ---- bounds of the model ----
MaxIds == 3        \* random values (outbound state, link state, code) drawn
MaxTicks == 2      \* clock advances
MaxInflight == 2   \* handlers suspended at an await at the same time
MaxAssertions == 3 \* client assertions built

\* ---- program constants ----
CACHE_TTL_MS == 900000

Null == "null"             \* JavaScript null / absent parameter
Undefined == "undefined"   \* JavaScript undefined
NoChars == << >>           \* the empty string, as characters
NoEntry == [t |-> "null"]  \* null where an object is expected

Gens == {"oidc", "outbound"}

\* ids found in tenants.json when the server starts: "github" has a
\* vault_connection, "plain" has none
Tenants == {"github", "plain"}
TenantIds == Tenants \cup {"nope"}     \* ids a forwarder request may name
LoginTenantIds == {"github", "nope"}   \* ids a login request may name

\* ---- text that travels in URLs: a sequence of characters ----
RedirectUri == "http://c/cb"
StatePlain == <<"s", " ", "1">>
StateAmp == <<"a", "&", "b">>

\* the agent access token the IdP mints for the login that came back with
\* outbound state st: a different token for every login
AgentTokenOf(st) == "T" \o ToString(st)
IdToken == "IDT"
AuthSession == "AS"
VaultUserToken == "VT"
ConnectUrl == <<"http://v/connect", "?", "ticket", "=", "T">>

\* crypto.createHash('sha256').update(v).digest('base64url'): an injective
\* image of the verifier that is never the verifier itself.
Sha256Base64Url(v) == <<"sha256", v>>

\* token.js validatePKCE (its call site in POST /token is commented out)
validatePKCE(codeVerifier, codeChallenge, codeChallengeMethod) ==
    IF codeVerifier = Null \/ codeChallenge = NoChars THEN FALSE
    ELSE IF codeChallengeMethod = "S256"
         THEN Sha256Base64Url(codeVerifier) = codeChallenge
         ELSE FALSE

\* The inbound /authorize query as URLSearchParams.
Params(st, cid, ch, m) ==
    [t |-> "URLSearchParams", state |-> st, client_id |-> cid,
     redirect_uri |-> RedirectUri, code_challenge |-> ch,
     code_challenge_method |-> m]

InboundRequests ==
    { Params(StatePlain, "C1", Sha256Base64Url("v1"), "S256"),
      Params(StateAmp,   Null, Sha256Base64Url("v1"), "S256"),
      Params(StatePlain, "C2", NoChars, Null) }

\* ---- URL text ----
\* encodeurl, applied by res.redirect to the Location: percent-encodes
\* characters that may not appear in a URL and leaves reserved ones alone.
EncodeChar(c) == IF c = " " THEN "%20" ELSE c
EncodeUrl(url) == [i \in 1..Len(url) |-> EncodeChar(url[i])]

\* what the receiving client does to read a query parameter
DecodeChar(c) == IF c = "%20" THEN " " ELSE c
DecodeText(txt) == [i \in 1..Len(txt) |-> DecodeChar(txt[i])]

RECURSIVE FirstIndex(_, _, _)
FirstIndex(seq, c, i) ==
    IF i > Len(seq) THEN 0
    ELSE IF seq[i] = c THEN i ELSE FirstIndex(seq, c, i + 1)

RECURSIVE Split(_, _)
Split(seq, sep) ==
    LET i == FirstIndex(seq, sep, 1) IN
    IF i = 0 THEN <<seq>>
    ELSE <<SubSeq(seq, 1, i - 1)>> \o Split(SubSeq(seq, i + 1, Len(seq)), sep)

PairKey(p) ==
    LET i == FirstIndex(p, "=", 1) IN IF i = 0 THEN p ELSE SubSeq(p, 1, i - 1)
PairValue(p) ==
    LET i == FirstIndex(p, "=", 1) IN
    IF i = 0 THEN NoChars ELSE SubSeq(p, i + 1, Len(p))

RECURSIVE FirstValue(_, _)
FirstValue(pairs, name) ==
    IF pairs = << >> THEN <<Null>>
    ELSE IF PairKey(Head(pairs)) = <<name>>
         THEN DecodeText(PairValue(Head(pairs)))
         ELSE FirstValue(Tail(pairs), name)

\* new URL(location).searchParams.get(name) at the client
QueryParam(url, name) ==
    LET q == FirstIndex(url, "?", 1) IN
    IF q = 0 THEN <<Null>>
    ELSE FirstValue(Split(SubSeq(url, q + 1, Len(url)), "&"), name)

UrlBase(url) ==
    LET q == FirstIndex(url, "?", 1) IN
    IF q = 0 THEN url ELSE SubSeq(url, 1, q - 1)

\* crypto.randomBytes(32).toString('base64url') of the n-th draw
RandomText(n) == ToString(n)

\* `${redirect_uri}?code=${newAuthzCode}&state=${originalState}`
FinalRedirectUrl(redirectUri, code, originalState) ==
    <<redirectUri, "?", "code", "=", RandomText(code), "&", "state", "=">>
        \o originalState

\* ---- Map operations ----
MapSet(m, k, v) == [x \in (DOMAIN m) \cup {k} |-> IF x = k THEN v ELSE m[x]]
MapDelete(m, k) == [x \in (DOMAIN m) \ {k} |-> m[x]]
EmptyMap == [x \in {} |-> Null]

\* a clearCacheItem that deletes nothing
clearCacheItemSkipped(m, k) == m

\* return_authz_cache.js clearCacheItem
clearCacheItem(m, k) == MapDelete(m, k)

\* expiry tests that are off by one millisecond, or never true
ExpiredAtTtl(entry, t) == t - entry.createdAt >= CACHE_TTL_MS
ExpiredNever(entry, t) == FALSE

\* Date.now() - cached.createdAt > CACHE_TTL_MS
Expired(entry, t) == t - entry.createdAt > CACHE_TTL_MS

\* getOidcRequest / getCachedOutboundRequest / getCachedAuthSession /
\* getCacheItem: the value returned ...
CacheGet(m, k, t) ==
    IF k \notin DOMAIN m THEN NoEntry
    ELSE IF Expired(m[k], t) THEN NoEntry ELSE m[k]
\* ... and the map it leaves behind
CacheAfterGet(m, k, t) ==
    IF k \in DOMAIN m /\ Expired(m[k], t) THEN MapDelete(m, k) ELSE m

VARIABLES
    deployed,     \* which generation of /authorize and /callback is loaded
    now,          \* Date.now(), in ms
    ticks,        \* clock advances so far
    nextId,       \* number of the next random draw
    oidcCache,    \* oidc_cache.js: oidcCache
    outboundRequestsCache, \* outbound_request_cache.js: outboundRequestsCache
    connectedAccountsCache, \* connected_account_session_cache.js
    returningAuthorizationCache, \* return_authz_cache.js
    inflight,     \* handlers suspended at an await
    flows,        \* history: what /authorize received, per outbound state
    minted,       \* history: what each return code was minted from
    lookedUp,     \* history: codes POST /token has looked up
    replayed,     \* history: codes POST /token has looked up again
    redeemed,     \* history: codes POST /token has answered with 200
    evicted,      \* history: keys a get has removed as expired
    hitAtTtl,     \* history: keys a get has found at the age of the TTL
    tenantsJson,  \* ids found in tenants.json, read at every lookup
    staged,       \* history: outbound states /callback has re-stored
    fwd,          \* the forwarder request (or function call) in progress
    keyCache,     \* jwt_authorizer.js: keyCache
    sentToBackend, \* history: requests the forwarder sent to a backend
    assertions,   \* history: client assertions built, in order
    uuids,        \* number of crypto.randomUUID() draws so far
    connectBody,  \* the last connect request built: scopes in, body out
    linkLog       \* history: per link state, complete-link calls and refusals

vars == <<deployed, now, ticks, nextId, oidcCache, outboundRequestsCache,
          connectedAccountsCache, returningAuthorizationCache, inflight,
          flows, minted, lookedUp, replayed, redeemed, evicted, hitAtTtl,
          tenantsJson, staged, fwd, keyCache, sentToBackend, assertions,
          uuids, connectBody, linkLog>>

config == <<deployed, tenantsJson>>
signed == <<assertions, uuids, connectBody>>
proxyVars == <<fwd, keyCache, sentToBackend, signed>>

caches == <<oidcCache, outboundRequestsCache, connectedAccountsCache,
            returningAuthorizationCache>>
history == <<flows, minted, lookedUp, replayed, redeemed, staged>>
gets == <<evicted, hitAtTtl>>

Idle == [route |-> "idle"]
Slots == 1..MaxInflight
FreeSlots == {s \in Slots : inflight[s] = Idle}
HasFreeSlot == FreeSlots # {}
FirstFree == CHOOSE s \in FreeSlots : \A o \in FreeSlots : s <= o

\* ---- responses ----
\* kind "sent": res.status(..).json(..) or res.redirect(..) was called;
\* kind "none": the handler is suspended at an await and has sent nothing;
\* kind "thrown": the handler threw outside any try block, so it sent
\*   nothing itself (the framework decides between silence and a 500).
Sent(status, error) ==
    [kind |-> "sent", status |-> status, error |-> error,
     location |-> NoChars, access_token |-> Null, token_type |-> Null]
Redirect(url) == [Sent(302, Null) EXCEPT !.location = EncodeUrl(url)]
NotYet == [Sent(0, Null) EXCEPT !.kind = "none"]
Thrown(what) == [Sent(0, what) EXCEPT !.kind = "thrown"]

\* no forwarder request in progress
FwdIdle == [pc |-> "idle"]

Init ==
    /\ deployed \in Gens
    /\ now = 0
    /\ ticks = 0
    /\ nextId = 1
    /\ oidcCache = EmptyMap
    /\ outboundRequestsCache = EmptyMap
    /\ connectedAccountsCache = EmptyMap
    /\ returningAuthorizationCache = EmptyMap
    /\ inflight = [s \in Slots |-> Idle]
    /\ flows = EmptyMap
    /\ minted = EmptyMap
    /\ lookedUp = {}
    /\ replayed = {}
    /\ redeemed = {}
    /\ evicted = {}
    /\ hitAtTtl = {}
    /\ tenantsJson = Tenants
    /\ staged = {}
    /\ fwd = FwdIdle
    /\ keyCache = EmptyMap
    /\ sentToBackend = {}
    /\ assertions = << >>
    /\ uuids = 0
    /\ connectBody = [t |-> "none"]
    /\ linkLog = EmptyMap

\* The clock moves between any two steps.
Tick ==
    /\ ticks < MaxTicks
    /\ \E d \in {1, CACHE_TTL_MS} : now' = now + d
    /\ ticks' = ticks + 1
    /\ UNCHANGED <<config, proxyVars, linkLog, nextId, caches, inflight,
                   history, gets>>

\* tenant_config.js getTenantConfig
getTenantConfig(tenantId) ==
    IF tenantId \in tenantsJson THEN tenantId ELSE Null

\* oidc_cache.js cacheOidcRequest (the outbound parameters it also stores
\* are read back only to call the IdP)
cacheOidcRequest(m, outboundState, originalState, originalParameters, accessToken, accessTokenScope, accessTokenExpiresIn, tenantId, t) ==
    MapSet(m, outboundState,
           [tenantId |-> tenantId, originalState |-> originalState,
            originalParameters |-> originalParameters,
            accessToken |-> accessToken,
            accessTokenScope |-> accessTokenScope,
            accessTokenExpiresIn |-> accessTokenExpiresIn,
            createdAt |-> t])

\* outbound_request_cache.js cacheOutboundRequest (likewise)
cacheOutboundRequest(m, outboundState, originalState, originalParameters, accessToken, tenantId, t) ==
    MapSet(m, outboundState,
           [tenantId |-> tenantId, originalState |-> originalState,
            originalParameters |-> originalParameters,
            accessToken |-> accessToken, createdAt |-> t])

\* the map the deployed /authorize and /callback keep their entries in
Cache == IF deployed = "oidc" THEN oidcCache ELSE outboundRequestsCache

\* writes map m2 there and leaves the other map alone
SetCache(m2) ==
    IF deployed = "oidc"
    THEN oidcCache' = m2 /\ UNCHANGED outboundRequestsCache
    ELSE outboundRequestsCache' = m2 /\ UNCHANGED oidcCache

\* a store that always writes a token into the entry
StoreRequestWithToken(outboundState, originalState, originalParameters, accessToken, tenantId, t) ==
    IF deployed = "oidc"
    THEN cacheOidcRequest(oidcCache, outboundState, originalState,
             originalParameters, "T0", Undefined, Undefined, tenantId, t)
    ELSE cacheOutboundRequest(outboundRequestsCache, outboundState,
             originalState, originalParameters, "T0", tenantId, t)

\* the entry GET /authorize stores with null for the token, its scope and
\* its expiry, and GET /callback re-stores with the agent token once the
\* link has begun (scope and expiry are then properties read on a string)
StoreRequest(outboundState, originalState, originalParameters, accessToken, tenantId, t) ==
    IF deployed = "oidc"
    THEN cacheOidcRequest(oidcCache, outboundState, originalState,
             originalParameters, accessToken,
             IF accessToken = Null THEN Null ELSE Undefined,
             IF accessToken = Null THEN Null ELSE Undefined, tenantId, t)
    ELSE cacheOutboundRequest(outboundRequestsCache, outboundState,
             originalState, originalParameters, accessToken, tenantId, t)

\* client_id the proxy sends to the IdP
ProxyClientId(p) == IF deployed = "oidc" THEN p.client_id ELSE "VSCODE_CLIENT"

\* ---- request parameters the environment may send ----
NoKey == 0                       \* parameter absent
Stranger == MaxIds + 1           \* a well-formed value the proxy never drew
Issued == 1..(nextId - 1)
KeyParams == Issued \cup {Stranger, NoKey}

\* GET /authorize/:tenantId: the response
AuthorizeResponse(tenantId, p) ==
    IF getTenantConfig(tenantId) = Null THEN Sent(404, "Not Found")
    ELSE Redirect(<<"IDP/oauth2/v1/authorize", "?", "client_id", "=",
                    ProxyClientId(p), "&", "state", "=",
                    RandomText(nextId)>>)

\* a GET /authorize that stores an entry whether or not the tenant resolves
AuthorizeCacheAlways(tenantId, p) ==
    StoreRequest(nextId, p.state, p, Null, tenantId, now)

\* GET /authorize/:tenantId: the map of outbound requests it leaves behind
AuthorizeCache(tenantId, p) ==
    IF getTenantConfig(tenantId) = Null THEN Cache
    ELSE StoreRequest(nextId, p.state, p, Null, tenantId, now)

\* GET /authorize/:tenantId
Authorize(tenantId, p) ==
    /\ UNCHANGED <<config, proxyVars, linkLog, now, ticks, connectedAccountsCache,
                   returningAuthorizationCache, inflight, minted, lookedUp,
                   replayed, redeemed, staged, gets>>
    /\ SetCache(AuthorizeCache(tenantId, p))
    /\ IF getTenantConfig(tenantId) = Null
       THEN UNCHANGED <<nextId, flows>>
       ELSE /\ nextId <= MaxIds
            /\ nextId' = nextId + 1
            /\ flows' = MapSet(flows, nextId,
                   [params |-> p, tenantId |-> tenantId, at |-> now])

\* return_authz_cache.js addToCache(returnAuthzCode, accessToken,
\* originalState, tenantId, originalParameters): args is the argument list
\* of the call, bound to the five parameters by position.
addToCache(m, args, t) ==
    MapSet(m, args[1],
           [accessToken |-> args[2], originalState |-> args[3],
            tenantId |-> args[4], originalParameters |-> args[5],
            createdAt |-> t])

\* connected_account_session_cache.js cacheAuthSession
cacheAuthSession(m, state, oidcState, authSession, userToken, t) ==
    MapSet(m, state,
           [authSession |-> authSession, state |-> state,
            oidcState |-> oidcState, userToken |-> userToken,
            createdAt |-> t])

\* the keys a get removes because the entry has expired
EvictedBy(m, k, t) == IF k \in DOMAIN m /\ Expired(m[k], t) THEN {k} ELSE {}
\* the keys a get finds when the entry is exactly as old as the TTL
HitAtTtlBy(m, k, t) ==
    IF k \in DOMAIN m /\ t - m[k].createdAt = CACHE_TTL_MS
          /\ CacheGet(m, k, t) # NoEntry
    THEN {k} ELSE {}

\* values a JavaScript expression yields when the receiver is a string
UndefinedChars == <<Undefined>>
IdTokenValue == [t |-> "string", v |-> IdToken]

\* a handler that reads .accessToken of the string in both generations
AgentAccessTokenOfString(returned) == Undefined

\* agentAccessTokenResponse.accessToken in the oidc generation:
\* getAccessTokenFromIDJag returns response.data.access_token, a string, and
\* a property read on a string is undefined.  The outbound generation uses
\* the returned string itself.
AgentAccessToken(returned) ==
    IF deployed = "oidc" THEN Undefined ELSE returned

\* the argument list of the addToCache call in GET /callback
CallbackAddToCacheArgs(code, agentAccessToken, cached) ==
    IF deployed = "oidc"
    THEN <<code, agentAccessToken, UndefinedChars, Undefined, IdTokenValue,
           cached.originalState, cached.tenantId, cached.originalParameters>>
    ELSE <<code, agentAccessToken, cached.originalState, cached.tenantId,
           cached.originalParameters>>

\* the catch blocks: status by the shape of the error
CatchStatus(kind, upstreamStatus) ==
    IF kind = "response" THEN upstreamStatus
    ELSE IF kind = "no_response" THEN 502 ELSE 500

\* the catch blocks: error by the route and the shape of the error
CatchError(route, kind) ==
    IF route = "callback"
    THEN IF kind = "response" THEN "token_exchange_error"
         ELSE IF kind = "no_response" THEN "bad_gateway" ELSE "server_error"
    ELSE IF kind = "response" THEN "Connected Accounts Error"
         ELSE IF kind = "no_response" THEN "Bad Gateway"
         ELSE "Internal Server Error"

CatchResponse(route, kind, upstreamStatus) ==
    Sent(CatchStatus(kind, upstreamStatus), CatchError(route, kind))

UpstreamStatuses == {401}

\* the query of a GET /callback request: <<state, code, error>>
CallbackRequests ==
    { <<st, "AUTH1", Null>> : st \in KeyParams }
    \cup { <<st, "AUTH1", "access_denied">> : st \in Issued \cup {Stranger} }
    \cup { <<st, Null, Null>> : st \in {Stranger} }

\* GET /callback, up to its first await: the response
CallbackBeginResponse(st, cd, er) ==
    IF er # Null THEN Sent(400, er)
    ELSE IF st = NoKey \/ cd = Null THEN Sent(400, "invalid_request")
    ELSE IF CacheGet(Cache, st, now) = NoEntry
         THEN Sent(400, "invalid_state")
         ELSE NotYet

\* GET /callback, up to its first await: the map getOidcRequest /
\* getCachedOutboundRequest leaves behind
CallbackBeginCache(st, cd, er) ==
    IF er # Null \/ st = NoKey \/ cd = Null THEN Cache
    ELSE CacheAfterGet(Cache, st, now)

\* GET /callback, up to its first await
CallbackBegin(st, cd, er) ==
    /\ UNCHANGED <<config, proxyVars, linkLog, now, ticks, nextId,
                   connectedAccountsCache, returningAuthorizationCache,
                   history>>
    /\ SetCache(CallbackBeginCache(st, cd, er))
    /\ IF er # Null \/ st = NoKey \/ cd = Null
       THEN UNCHANGED gets
       ELSE /\ evicted' = evicted \cup EvictedBy(Cache, st, now)
            /\ hitAtTtl' = hitAtTtl \cup HitAtTtlBy(Cache, st, now)
    /\ IF CallbackBeginResponse(st, cd, er) # NotYet
       THEN UNCHANGED inflight
       ELSE /\ HasFreeSlot
            /\ inflight' = [inflight EXCEPT ![FirstFree] =
                   [route |-> "callback", state |-> st, pc |-> "idp",
                    cached |-> CacheGet(Cache, st, now),
                    tenant |-> getTenantConfig(
                                   CacheGet(Cache, st, now).tenantId),
                    agentAccessToken |-> Null, idpToken |-> Null]]

\* the catch block of GET /callback
CallbackCatch(s) ==
    /\ SetCache(MapDelete(Cache, inflight[s].state))
    /\ inflight' = [inflight EXCEPT ![s] = Idle]

\* how the three awaited IdP calls end: "ok", or the first failure of
\* completeOktaOIDCLogin (login), getIdJagFromOkta (jag) or
\* getAccessTokenFromIDJag (token): the upstream answered with an error
\* status (response), never answered (no_response), or the request was
\* never sent (failed)
IdpOutcomes ==
    {"ok", "login_response", "login_no_response", "jag_response",
     "jag_no_response", "token_response", "token_no_response", "failed"}

\* the shape of the error the catch block of /callback sees:
\* completeOktaOIDCLogin lets the HTTP client's error through, the two
\* later calls catch theirs and throw a plain Error in its place
IdpErrorKind(outcome) ==
    IF outcome = "login_response" THEN "response"
    ELSE IF outcome = "login_no_response" THEN "no_response" ELSE "local"

\* the calls of the chain that run before the tenant is looked at
BeforeTenantUse == {"login_response", "login_no_response"}

\* GET /callback after the IdP calls: the response
CallbackIdpResponse(s, outcome, upstreamStatus) ==
    IF outcome = "ok" /\ inflight[s].tenant # Null
    THEN NotYet
    ELSE IF inflight[s].tenant = Null /\ outcome \notin BeforeTenantUse
    THEN \* getIdJagFromOkta: throw new Error('tenantConfig is required')
         CatchResponse("callback", "local", upstreamStatus)
    ELSE CatchResponse("callback", IdpErrorKind(outcome), upstreamStatus)

\* GET /callback: completeOktaOIDCLogin, getIdJagFromOkta and
\* getAccessTokenFromIDJag have returned or thrown
CallbackIdp(s, outcome) ==
    LET r == inflight[s] IN
    /\ r.route = "callback" /\ r.pc = "idp"
    /\ UNCHANGED <<config, proxyVars, linkLog, now, ticks, nextId, connectedAccountsCache,
                   returningAuthorizationCache, history, gets>>
    /\ IF outcome = "ok" /\ r.tenant # Null
       THEN /\ inflight' = [inflight EXCEPT ![s] =
                   [r EXCEPT !.pc = "vault",
                             !.agentAccessToken =
                                 AgentAccessToken(AgentTokenOf(r.state)),
                             !.idpToken = AgentTokenOf(r.state)]]
            /\ UNCHANGED <<oidcCache, outboundRequestsCache>>
       ELSE CallbackCatch(s)

\* ---- token_vault.js exchangeOktaAccessToken ----
\* how the internal token exchange (getAuth0VaultTokenFromOktaToken) ends:
\* it returns response.data.access_token, which may be missing, or throws
InnerOutcomes == {"token", "empty", "throws"}
\* how the POST to the vault's /oauth/token ends
VaultReplies ==
    {"200", "200_no_token", "401_refresh_token_not_found", "401_other",
     "500", "no_response", "setup_error"}

\* a token string, or the empty string / undefined / null in its place
TokenText(v) == [t |-> "token", v |-> v]
EmptyText == [t |-> "empty"]
NoAccessToken == [t |-> "undefined"]
NullToken == [t |-> "null"]
Truthy(tok) == tok.t = "token" \/ tok.t = "jwt"
Downstream == TokenText("D1")

VaultResult(success, needsLinking, accessToken) ==
    [t |-> "result", success |-> success, needsLinking |-> needsLinking,
     accessToken |-> accessToken]
VaultThrown == [t |-> "thrown"]

exchangeOktaAccessToken(inner, reply) ==
    IF inner = "throws" THEN VaultThrown      \* throw new Error(..)
    ELSE IF inner = "empty" THEN NoEntry      \* return null
    ELSE IF reply = "200" THEN VaultResult(TRUE, FALSE, Downstream)
    ELSE IF reply = "200_no_token"
         THEN VaultResult(TRUE, FALSE, NoAccessToken)
    ELSE IF reply = "401_refresh_token_not_found"
         THEN VaultResult(FALSE, TRUE, NullToken)
    ELSE VaultResult(FALSE, FALSE, NullToken)

\* what the caller's if / else-if / else makes of the value: reading
\* .success of null throws a TypeError
VaultOutcomeOf(result) ==
    IF result.t # "result" THEN "throws"
    ELSE IF result.success THEN "ok"
    ELSE IF result.needsLinking THEN "needs_linking" ELSE "error"

VaultOutcomes ==
    { VaultOutcomeOf(exchangeOktaAccessToken(i, r)) :
        i \in InnerOutcomes, r \in VaultReplies }

\* GET /callback after vault.exchangeOktaAccessToken: the response
CallbackVaultResponse(s, outcome) ==
    LET r == inflight[s] IN
    IF outcome = "ok"
    THEN Redirect(FinalRedirectUrl(r.cached.originalParameters.redirect_uri,
                                   nextId, r.cached.originalState))
    ELSE IF outcome = "needs_linking" THEN NotYet
    ELSE IF outcome = "error" THEN Sent(403, "Token Request Failed")
    ELSE CatchResponse("callback", "local", 500)

\* GET /callback: vault.exchangeOktaAccessToken has returned or thrown
\* ("throws" covers a returned null, whose .success read throws)
CallbackVault(s, outcome) ==
    LET r == inflight[s] IN
    /\ r.route = "callback" /\ r.pc = "vault"
    /\ UNCHANGED <<config, proxyVars, linkLog, now, ticks, connectedAccountsCache,
                   flows, lookedUp, replayed, redeemed, staged, gets>>
    /\ CASE outcome = "ok" ->
              /\ nextId <= MaxIds
              /\ nextId' = nextId + 1
              /\ SetCache(MapDelete(Cache, r.state))
              /\ returningAuthorizationCache' =
                     addToCache(returningAuthorizationCache,
                                CallbackAddToCacheArgs(nextId,
                                    r.agentAccessToken, r.cached), now)
              /\ minted' = MapSet(minted, nextId,
                     [by |-> "callback", flow |-> r.state,
                      idpToken |-> r.idpToken])
              /\ inflight' = [inflight EXCEPT ![s] = Idle]
         [] outcome = "needs_linking" ->
              /\ inflight' = [inflight EXCEPT ![s] = [r EXCEPT !.pc = "link"]]
              /\ UNCHANGED <<nextId, oidcCache, outboundRequestsCache,
                             returningAuthorizationCache, minted>>
         [] outcome = "error" ->
              /\ inflight' = [inflight EXCEPT ![s] = Idle]
              /\ UNCHANGED <<nextId, oidcCache, outboundRequestsCache,
                             returningAuthorizationCache, minted>>
         [] outcome = "throws" ->
              /\ CallbackCatch(s)
              /\ UNCHANGED <<nextId, returningAuthorizationCache, minted>>

LinkOutcomes == {"ok", "fail", "throws"}

\* GET /callback after vault.beginConnectedAccountFlow: the response
CallbackLinkResponse(s, outcome) ==
    IF outcome = "ok" THEN Redirect(ConnectUrl)
    ELSE IF outcome = "fail" THEN Sent(403, "Token Request Failed")
    ELSE CatchResponse("callback", "local", 500)

\* a begin-link that stores the session and leaves the entry unstaged
StagedByNothing(outcome, state) == staged

\* the outbound states whose entry holds the staged token once
\* beginConnectedAccountFlow has ended with outcome for state: the
\* function stores the session and returns, and the handler resumes and
\* stores the entry again, with no I/O in between
StagedBy(outcome, state) ==
    IF outcome = "ok" THEN staged \cup {state} ELSE staged

\* a begin-link that stores the session whatever the connect call answered
beginConnectedAccountFlowAlways(m, outcome, state, oidcState, t) ==
    cacheAuthSession(m, state, oidcState, AuthSession, VaultUserToken, t)

\* token_vault.js beginConnectedAccountFlow: the Link-Session map it leaves
\* behind. state is the value drawn from crypto.randomBytes and put in the
\* body of the connect request. The preliminary exchange rethrows before
\* anything is stored ("throws"); an error reply, no reply, or a reply
\* without connect_params ends in the catch, before cacheAuthSession
\* ("fail")
beginConnectedAccountFlow(m, outcome, state, oidcState, t) ==
    IF outcome = "ok"
    THEN cacheAuthSession(m, state, oidcState, AuthSession, VaultUserToken, t)
    ELSE m

\* GET /callback: vault.beginConnectedAccountFlow has returned or thrown.
\* On success it has stored the session itself (cacheAuthSession) before
\* returning; the handler resumes in the same turn of the event loop and
\* re-stores the outbound entry with the agent token.
CallbackLink(s, outcome) ==
    LET r == inflight[s] IN
    /\ r.route = "callback" /\ r.pc = "link"
    /\ UNCHANGED <<config, proxyVars, linkLog, now, ticks,
                   returningAuthorizationCache, flows, minted, lookedUp,
                   replayed, redeemed, gets>>
    /\ staged' = StagedBy(outcome, r.state)
    /\ connectedAccountsCache' =
           beginConnectedAccountFlow(connectedAccountsCache, outcome, nextId,
                                     r.state, now)
    /\ CASE outcome = "ok" ->
              /\ nextId <= MaxIds
              /\ nextId' = nextId + 1
              /\ SetCache(StoreRequest(r.state, r.cached.originalState,
                              r.cached.originalParameters,
                              r.agentAccessToken, r.cached.tenantId, now))
              /\ inflight' = [inflight EXCEPT ![s] = Idle]
         [] outcome = "fail" ->
              /\ inflight' = [inflight EXCEPT ![s] = Idle]
              /\ UNCHANGED <<nextId, oidcCache, outboundRequestsCache>>
         [] outcome = "throws" ->
              /\ CallbackCatch(s)
              /\ UNCHANGED nextId

\* the query of a GET /connected_account_callback request:
\* <<state, connect_code>>
LinkRequests ==
    { <<st, "CC1">> : st \in KeyParams } \cup {<<Stranger, Null>>}

\* GET /connected_account_callback, up to its await: the response
LinkBeginResponse(st, cc) ==
    IF st = NoKey \/ cc = Null THEN Sent(400, "Missing Parameter")
    ELSE IF CacheGet(connectedAccountsCache, st, now) = NoEntry
         THEN Sent(400, "Invalid or Expired State")
         ELSE NotYet

\* a clearCachedAuthSession that leaves the session in the map
clearCachedAuthSessionSkipped(m, state) == m

\* connected_account_session_cache.js clearCachedAuthSession
clearCachedAuthSession(m, state) == MapDelete(m, state)

\* the log of link states after a request with state st: the request
\* reaches the POST to complete-link when it finds a session; a request
\* that finds none for a state that reached the POST before is a refusal
LinkLogged(st) ==
    IF CacheGet(connectedAccountsCache, st, now) # NoEntry
    THEN MapSet(linkLog, st,
             IF st \in DOMAIN linkLog
             THEN [linkLog[st] EXCEPT !.calls = 2]
             ELSE [calls |-> 1, refused |-> FALSE])
    ELSE IF st \in DOMAIN linkLog
    THEN MapSet(linkLog, st, [linkLog[st] EXCEPT !.refused = TRUE])
    ELSE linkLog

\* GET /connected_account_callback, up to its await
LinkBegin(st, cc) ==
    /\ UNCHANGED <<config, proxyVars, now, ticks, nextId, oidcCache,
                   outboundRequestsCache, returningAuthorizationCache,
                   history>>
    /\ IF st = NoKey \/ cc = Null
       THEN UNCHANGED <<connectedAccountsCache, inflight, gets, linkLog>>
       ELSE /\ linkLog' = LinkLogged(st)
            /\ connectedAccountsCache' = clearCachedAuthSession(
                   CacheAfterGet(connectedAccountsCache, st, now), st)
            /\ evicted' = evicted \cup EvictedBy(connectedAccountsCache, st,
                                                 now)
            /\ hitAtTtl' = hitAtTtl \cup
                   HitAtTtlBy(connectedAccountsCache, st, now)
            /\ IF CacheGet(connectedAccountsCache, st, now) = NoEntry
               THEN UNCHANGED inflight
               ELSE /\ HasFreeSlot
                    /\ inflight' = [inflight EXCEPT ![FirstFree] =
                           [route |-> "link", state |-> st,
                            pc |-> "complete",
                            cachedData |->
                                CacheGet(connectedAccountsCache, st, now)]]

\* the catch block of GET /connected_account_callback
LinkCatch(s) ==
    /\ connectedAccountsCache' =
           clearCachedAuthSession(connectedAccountsCache, inflight[s].state)
    /\ inflight' = [inflight EXCEPT ![s] = Idle]

CompleteOutcomes == {"ok", "response", "no_response"}

\* the entry GET /connected_account_callback reads back for the login
LinkOidcCachedData(s) ==
    CacheGet(outboundRequestsCache, inflight[s].cachedData.oidcState, now)

\* GET /connected_account_callback after the POST to
\* /me/v1/connected-accounts/complete: the response
LinkCompleteResponse(s, outcome, upstreamStatus) ==
    IF outcome # "ok" THEN CatchResponse("link", outcome, upstreamStatus)
    ELSE IF LinkOidcCachedData(s) = NoEntry
         THEN \* oidcCachedData.accessToken throws a TypeError, caught
              CatchResponse("link", "local", 500)
         ELSE Redirect(FinalRedirectUrl(
                  LinkOidcCachedData(s).originalParameters.redirect_uri,
                  nextId, LinkOidcCachedData(s).originalState))

\* GET /connected_account_callback: the POST to
\* /me/v1/connected-accounts/complete has returned or thrown
LinkComplete(s, outcome) ==
    LET r == inflight[s]
        oidcState == r.cachedData.oidcState
        oidcCachedData == LinkOidcCachedData(s)
    IN
    /\ r.route = "link" /\ r.pc = "complete"
    /\ UNCHANGED <<config, proxyVars, linkLog, now, ticks, oidcCache, flows,
                   lookedUp, replayed, redeemed, staged>>
    /\ IF outcome = "ok"
       THEN /\ outboundRequestsCache' = MapDelete(
                   CacheAfterGet(outboundRequestsCache, oidcState, now),
                   oidcState)
            /\ evicted' = evicted \cup EvictedBy(outboundRequestsCache,
                                                 oidcState, now)
            /\ hitAtTtl' = hitAtTtl \cup
                   HitAtTtlBy(outboundRequestsCache, oidcState, now)
            /\ IF oidcCachedData = NoEntry
               THEN /\ LinkCatch(s)
                    /\ UNCHANGED <<nextId, returningAuthorizationCache,
                                   minted>>
               ELSE /\ nextId <= MaxIds
                    /\ nextId' = nextId + 1
                    /\ returningAuthorizationCache' =
                           addToCache(returningAuthorizationCache,
                               <<nextId, oidcCachedData.accessToken,
                                 oidcCachedData.originalState,
                                 oidcCachedData.tenantId,
                                 oidcCachedData.originalParameters>>, now)
                    /\ minted' = MapSet(minted, nextId,
                           [by |-> "link", flow |-> oidcState,
                            idpToken |-> oidcCachedData.accessToken])
                    /\ inflight' = [inflight EXCEPT ![s] = Idle]
                    /\ UNCHANGED connectedAccountsCache
       ELSE /\ LinkCatch(s)
            /\ UNCHANGED <<nextId, outboundRequestsCache,
                           returningAuthorizationCache, minted, gets>>

\* the body of a POST /token request
TokenBody(gt, code, cid, ver, ru) ==
    [t |-> "body", grant_type |-> gt, code |-> code, client_id |-> cid,
     code_verifier |-> ver, redirect_uri |-> ru]

\* bodies that carry every required field
GoodBodies ==
    { TokenBody("authorization_code", c, cv[1], cv[2], RedirectUri) :
        c \in Issued \cup {Stranger},
        cv \in {<<"C1", "v1">>, <<"C1", "v2">>, <<"C2", "v1">>} }
\* bodies with a wrong grant type or a missing field
BadBodies ==
    { TokenBody("authorization_code", NoKey, "C1", "v1", RedirectUri) }
    \cup UNION { { TokenBody("refresh_token", c, "C1", "v1", RedirectUri),
                   TokenBody("authorization_code", c, Null, "v1", RedirectUri),
                   TokenBody("authorization_code", c, "C1", Null, RedirectUri),
                   TokenBody("authorization_code", c, "C1", "v1", Null) } :
                 c \in Issued \cup {Stranger} }
TokenBodies == GoodBodies \cup BadBodies

\* a POST /token without the checks that come before the cache is read
TokenPrecheckNone(b) == "ok"

\* the checks of POST /token that come before the cache is read
TokenPrecheck(b) ==
    IF b.grant_type # "authorization_code" THEN "unsupported_grant_type"
    ELSE IF b.code = NoKey \/ b.client_id = Null \/ b.code_verifier = Null
            \/ b.redirect_uri = Null
         THEN "invalid_request"
         ELSE "ok"

\* originalClientId && originalClientId !== client_id
ClientIdMismatch(originalClientId, client_id) ==
    originalClientId # Null /\ originalClientId # client_id

\* what POST /token answers once it holds the cached entry
TokenDecision(cachedAuthz, b) ==
    IF cachedAuthz.originalParameters.t # "URLSearchParams"
    THEN \* originalParameters.get is not a function
         Thrown("TypeError")
    ELSE IF cachedAuthz.originalParameters.code_challenge = NoChars
    THEN Sent(400, "invalid_request")
    ELSE IF ClientIdMismatch(cachedAuthz.originalParameters.client_id,
                             b.client_id)
    THEN Sent(400, "invalid_grant")
    ELSE [Sent(200, Null) EXCEPT !.access_token = cachedAuthz.accessToken,
                                 !.token_type = "Bearer"]

\* a POST /token that answers 200 without reading the cache
TokenResponseAnyCode(b) ==
    IF TokenPrecheck(b) # "ok" THEN Sent(400, TokenPrecheck(b))
    ELSE [Sent(200, Null) EXCEPT !.access_token = AgentTokenOf(0),
                                 !.token_type = "Bearer"]

\* POST /token: the response
TokenResponse(b) ==
    IF TokenPrecheck(b) # "ok" THEN Sent(400, TokenPrecheck(b))
    ELSE IF CacheGet(returningAuthorizationCache, b.code, now) = NoEntry
         THEN Sent(400, "invalid_grant")
         ELSE TokenDecision(
                  CacheGet(returningAuthorizationCache, b.code, now), b)

\* a POST /token that removes the code only when it answers 200
TokenCacheAfterOnSuccess(b) ==
    IF TokenPrecheck(b) = "ok" /\ TokenResponse(b).status = 200
    THEN clearCacheItem(returningAuthorizationCache, b.code)
    ELSE returningAuthorizationCache

\* POST /token: the Return-Code map the request leaves behind
TokenCacheAfter(b) ==
    IF TokenPrecheck(b) # "ok" THEN returningAuthorizationCache
    ELSE clearCacheItem(
             CacheAfterGet(returningAuthorizationCache, b.code, now), b.code)

\* POST /token: getCacheItem and clearCacheItem run with no await between
\* them, so the handler is one step
Token(b) ==
    /\ UNCHANGED <<config, proxyVars, linkLog, now, ticks, nextId, oidcCache,
                   outboundRequestsCache, connectedAccountsCache, inflight,
                   flows, minted, staged>>
    /\ returningAuthorizationCache' = TokenCacheAfter(b)
    /\ IF TokenPrecheck(b) # "ok"
       THEN UNCHANGED <<lookedUp, replayed, redeemed, gets>>
       ELSE /\ evicted' = evicted \cup
                   EvictedBy(returningAuthorizationCache, b.code, now)
            /\ hitAtTtl' = hitAtTtl \cup
                   HitAtTtlBy(returningAuthorizationCache, b.code, now)
            /\ lookedUp' = lookedUp \cup ({b.code} \cap DOMAIN minted)
            /\ replayed' = replayed \cup ({b.code} \cap lookedUp)
            /\ redeemed' = IF TokenResponse(b).status = 200
                           THEN redeemed \cup {b.code} ELSE redeemed


\* ---------------------------------------------------------------------
\* The forwarder: ANY /:tenantId/* behind tenantMiddleware and
\* authMiddleware (main.js mounts the proxy route with both)
\* ---------------------------------------------------------------------
KEY_CACHE_TTL == 3600000

\* fields of a tenant configuration
Issuer(tenantConfig) == <<"https://idp/", tenantConfig>>
VaultConnection(tenantConfig) ==
    IF tenantConfig = "plain" THEN Null ELSE tenantConfig
BackendUrl(tenantConfig) == <<"https://backend/", tenantConfig>>

\* a JWT by what the authorizer can learn from it: whether its body and
\* its header parse, its iss and aud claims, its kid, and what njwt.verify
\* does with it under the right key
Jwt(body, iss, header, kid, verify, aud) ==
    [t |-> "jwt", body |-> body, iss |-> iss, header |-> header,
     kid |-> kid, verify |-> verify, aud |-> aud]

\* the aud claim of a token body: absent, a string (a sequence of pieces
\* of text, "" being the empty sequence), or an array of strings
NoAud == [t |-> "absent"]
AudString(s) == [t |-> "string", v |-> s]
AudArray(S) == [t |-> "array", v |-> S]

\* `${process.env.API_BASE_URL}/${tenantConfig.id}`
ExpectedAudience(apiBaseUrl, tenantConfig) == <<apiBaseUrl, "/", tenantConfig>>

\* aud claims of the tokens presented to the github tenant
AudClaims ==
    LET expected == ExpectedAudience("https://api", "github") IN
    { NoAud,
      AudString(<< >>),
      AudString(expected),
      AudString(expected \o <<"/repos">>),
      AudString(<<"https://api">>),
      AudString(<<"https://other">>),
      AudArray({expected, <<"https://other">>}),
      AudArray({expected \o <<"/repos">>}),
      AudArray({}) }

BearerTokens ==
    { Jwt("json", Issuer("github"), "json", "k1", "valid", a) :
        a \in AudClaims }
    \cup
    { Jwt("json", Issuer("github"), "json", "k1", "expired", NoAud),
      Jwt("json", Issuer("github"), "json", "k2", "bad_signature", NoAud),
      Jwt("json", Issuer("github"), "garbled", Null, "valid", NoAud),
      Jwt("garbled", Null, "json", "k1", "valid", NoAud),
      Jwt("json", Issuer("evil"), "json", "k1", "valid", NoAud),
      Jwt("json", Issuer("plain"), "json", "k1", "valid", NoAud) }

\* the Authorization header of the inbound request
Bearer(token) == [scheme |-> "Bearer", token |-> token]
AuthorizationValues ==
    {[scheme |-> "none"], [scheme |-> "Basic"]}
        \cup {Bearer(j) : j \in BearerTokens}

\* req.headers, and undefined in its place
Headers(authorization) ==
    [t |-> "headers", authorization |-> authorization,
     host |-> "proxy.example", content_type |-> Null, accept |-> "text/html"]
NoHeaders == [t |-> "undefined"]

ProxyRequest(tenantId, method, authorization) ==
    [tenantId |-> tenantId, method |-> method,
     headers |-> Headers(authorization)]
ProxyRequests ==
    { ProxyRequest(tn, "GET", a) :
        tn \in TenantIds, a \in AuthorizationValues }

\* process.env.API_BASE_URL: unset or set
ApiBaseUrls == {Null, "https://api"}

\* ---- jwt_authorizer.js ----
AuthResult(success, statusCode, message, token) ==
    [t |-> "result", success |-> success, statusCode |-> statusCode,
     message |-> message, token |-> token]
Rejected(statusCode, message) ==
    AuthResult(FALSE, statusCode, message, NullToken)
NoResult == [t |-> "none"]
NeedsKey == [t |-> "await getSigningKey"]

\* a validateIssuer that accepts every issuer
validateIssuerAny(issuer, tenantConfig) == TRUE

validateIssuer(issuer, tenantConfig) == issuer = Issuer(tenantConfig)

\* authorizeRequest(tenantConfig, httpMethod, headers): the third
\* parameter, given the argument list of the call
ThirdParameter(args) == IF Len(args) >= 3 THEN args[3] ELSE NoHeaders

\* authorizeRequest up to the call of getSigningKey.  Every throw in this
\* part (a property read on undefined headers, a body or a header that does
\* not parse) is caught by the try block and answered 401.
BeforeKey(tenantConfig, headers) ==
    IF headers.t = "undefined"
    THEN Rejected(401, "Invalid or expired access token.")
    ELSE IF headers.authorization.scheme # "Bearer"
    THEN Rejected(401, "Missing or invalid authorization header.")
    ELSE LET accessToken == headers.authorization.token IN
         IF accessToken.body # "json"
         THEN Rejected(401, "Invalid or expired access token.")
         ELSE IF ~validateIssuer(accessToken.iss, tenantConfig)
         THEN Rejected(403, "Access token was not issued by a trusted issuer")
         ELSE IF accessToken.header # "json"
         THEN Rejected(401, "Invalid or expired access token.")
         ELSE NeedsKey

\* getSigningKey: the cache key and the test for a fresh cached key
CacheKey(tenantConfig, kid) == <<tenantConfig, kid>>
\* a KeyCached whose window includes the age KEY_CACHE_TTL itself
KeyCachedAtTtl(tenantConfig, kid, t) ==
    /\ CacheKey(tenantConfig, kid) \in DOMAIN keyCache
    /\ t - keyCache[CacheKey(tenantConfig, kid)].timestamp <= KEY_CACHE_TTL

KeyCached(tenantConfig, kid, t) ==
    /\ CacheKey(tenantConfig, kid) \in DOMAIN keyCache
    /\ t - keyCache[CacheKey(tenantConfig, kid)].timestamp < KEY_CACHE_TTL

\* keyCache.get(cacheKey), with null for undefined
KeyCacheGet(tenantConfig, kid) ==
    IF CacheKey(tenantConfig, kid) \in DOMAIN keyCache
    THEN keyCache[CacheKey(tenantConfig, kid)] ELSE NoEntry

\* the key of the JWKS document whose kid is the token's
JwksKey(kid) == [kty |-> "RSA", kid |-> kid]

\* how the JWKS fetch ends
KeyOutcomes == {"found", "not_found", "network_error"}

\* an Error object by its message, and no error
ErrorOf(message) == [t |-> "Error", message |-> message]
NoError == [t |-> "none"]

\* what the try block of getSigningKey throws: the rejection of
\* axios.request, or its own Error when keyByKid.length is not 1
ThrownInTry(outcome) ==
    IF outcome = "not_found"
    THEN ErrorOf("Unable to locate signing key with kid")
    ELSE ErrorOf("axios: request failed")

\* the catch block of getSigningKey: logs error.message and throws anew
getSigningKeyCatch(error) ==
    ErrorOf("Error retrieving signing keys from authorization server")

\* what the caller of getSigningKey catches
getSigningKeyThrows(outcome) ==
    IF outcome = "found" THEN NoError
    ELSE getSigningKeyCatch(ThrownInTry(outcome))

\* String.prototype.startsWith
StartsWith(s, prefix) ==
    Len(s) >= Len(prefix) /\ SubSeq(s, 1, Len(prefix)) = prefix

\* verifiedJWT.body.aud as a condition: an absent claim and "" are falsy
AudTruthy(aud) == aud.t = "array" \/ (aud.t = "string" /\ aud.v # << >>)

\* the value of validAudience
validAudience(tokenAud, expectedAudience) ==
    IF tokenAud.t = "array" THEN expectedAudience \in tokenAud.v
    ELSE tokenAud.v = expectedAudience
            \/ StartsWith(tokenAud.v, expectedAudience)

\* the audience test of authorizeRequest rejects the token
AudienceRejected(aud, apiBaseUrl, tenantConfig) ==
    /\ apiBaseUrl # Null
    /\ AudTruthy(aud)
    /\ ~validAudience(aud, ExpectedAudience(apiBaseUrl, tenantConfig))

\* authorizeRequest from njwt.verify on
AfterKey(tenantConfig, headers, apiBaseUrl) ==
    LET accessToken == headers.authorization.token IN
    IF accessToken.verify # "valid"
    THEN Rejected(401, "Invalid or expired access token.")
    ELSE IF AudienceRejected(accessToken.aud, apiBaseUrl, tenantConfig)
    THEN Rejected(403, "Access token has incorrect audience for this tenant.")
    ELSE AuthResult(TRUE, 0, "", accessToken)

\* ---- proxy_routes.js ----
\* responses of the forwarder
ProxySent(status, error, message, wwwAuthenticate) ==
    [kind |-> "sent", status |-> status, error |-> error,
     message |-> message, www_authenticate |-> wwwAuthenticate,
     relayed |-> FALSE]
ProxyRelayed(status) ==
    [ProxySent(status, Null, Null, NoChars) EXCEPT !.relayed = TRUE]
ProxyNotYet == [ProxySent(0, Null, Null, NoChars) EXCEPT !.kind = "none"]
ProxyThrown == [ProxySent(0, Null, Null, NoChars) EXCEPT !.kind = "thrown"]

\* auth_middleware.js: the WWW-Authenticate value
WwwAuthenticate(message, tenantConfig) ==
    <<"Bearer", "invalid_or_misssing_jwt", message, tenantConfig>>

\* backend headers that mirror every inbound header
BackendHeadersMirrored(req, vaultedToken) ==
    ("Content-Type" :> "application/json") @@ ("Accept" :> req.headers.accept)
        @@ ("Authorization" :> req.headers.authorization)
        @@ ("Host" :> req.headers.host)

\* the headers of the request to the backend
BackendHeaders(req, vaultedToken) ==
    LET backendHeaders ==
            ("Content-Type" :> IF req.headers.content_type = Null
                               THEN "application/json"
                               ELSE req.headers.content_type)
            @@ ("Accept" :> IF req.headers.accept = Null
                            THEN "application/json" ELSE req.headers.accept)
    IN IF Truthy(vaultedToken)
       THEN backendHeaders @@ ("Authorization" :> Bearer(vaultedToken))
       ELSE backendHeaders

\* one activation: unit "middleware" is a request that came in through
\* the mounted route, unit "authorizeRequest" is authorizeRequest called
\* with its three parameters bound, unit "route" is the route handler
\* called with req.tenantConfig and req.authContext set
NewFwd(unit, tenantConfig, req, passed, apiBaseUrl) ==
    [pc |-> "start", unit |-> unit, tenantConfig |-> tenantConfig,
     req |-> req, passed |-> passed, apiBaseUrl |-> apiBaseUrl,
     at |-> now, seen |-> NoEntry, signingKey |-> NoEntry,
     key |-> "not_needed", keyError |-> NoError, authResult |-> NoResult,
     accessToken |-> NullToken, vaultReply |-> << >>,
     vaultResult |-> NoResult,
     vaultedToken |-> EmptyText, sent |-> FALSE, backend |-> Null,
     response |-> ProxyNotYet]

BackendRequest(rec) ==
    [inbound |-> rec.req, url |-> BackendUrl(rec.tenantConfig),
     method |-> rec.req.method, vaulted |-> rec.vaultResult,
     headers |-> BackendHeaders(rec.req, rec.vaultedToken)]

\* the route handler up to its first await
RouteStart(rec) ==
    IF VaultConnection(rec.tenantConfig) # Null
    THEN [rec EXCEPT !.pc = "vault"]
    ELSE [rec EXCEPT !.pc = "backend", !.sent = TRUE]

\* an authMiddleware that calls next() whatever the authorizer returned
AfterAuthorizerAlwaysNext(rec, key, result) ==
    LET r1 == [rec EXCEPT !.key = key, !.authResult = result] IN
    IF rec.unit = "authorizeRequest" THEN [r1 EXCEPT !.pc = "ended"]
    ELSE RouteStart([r1 EXCEPT !.accessToken = result.token])

\* authorizeRequest has returned result: the caller goes on
AfterAuthorizer(rec, key, result) ==
    LET r1 == [rec EXCEPT !.key = key, !.authResult = result] IN
    IF rec.unit = "authorizeRequest" THEN [r1 EXCEPT !.pc = "ended"]
    ELSE IF ~result.success
    THEN [r1 EXCEPT !.pc = "ended",
             !.response = ProxySent(result.statusCode,
                 IF result.statusCode = 401 THEN "Unauthorized"
                 ELSE "Forbidden",
                 result.message,
                 WwwAuthenticate(result.message, rec.tenantConfig))]
    ELSE RouteStart([r1 EXCEPT !.accessToken = result.token])

\* authorizeRequest from its start to its first suspension
StartAuthorizer(rec) ==
    LET before == BeforeKey(rec.tenantConfig, rec.passed) IN
    IF before # NeedsKey THEN AfterAuthorizer(rec, "not_needed", before)
    ELSE LET kid == rec.passed.authorization.token.kid
             cached == KeyCacheGet(rec.tenantConfig, kid)
             r1 == [rec EXCEPT !.seen = cached]
         IN IF KeyCached(rec.tenantConfig, kid, now)
            THEN AfterAuthorizer([r1 EXCEPT !.signingKey = cached.key],
                     "cached",
                     AfterKey(rec.tenantConfig, rec.passed, rec.apiBaseUrl))
            ELSE [r1 EXCEPT !.pc = "keys"]

\* the step moves the activation into the backend call
SentBy(rec) == IF rec.pc = "backend" THEN {BackendRequest(rec)} ELSE {}

FwdFree == fwd.pc = "idle" \/ fwd.pc = "ended"

FlowVars == <<deployed, tenantsJson, now, ticks, nextId, caches, inflight,
              history, gets, signed, linkLog>>

\* ANY /:tenantId/*: tenantMiddleware, then authMiddleware, which calls
\* jwtAuthorizer.authorizeRequest(tenantConfig, req.headers)
ProxyReceive(req, apiBaseUrl) ==
    LET tenantConfig == getTenantConfig(req.tenantId)
        rec == NewFwd("middleware", tenantConfig, req,
                      ThirdParameter(<<tenantConfig, req.headers>>),
                      apiBaseUrl)
        rec2 == IF tenantConfig = Null
                THEN [rec EXCEPT !.pc = "ended",
                         !.response = ProxySent(404, "Not Found",
                                          "Tenant not found.", NoChars)]
                ELSE StartAuthorizer(rec)
    IN /\ FwdFree
       /\ fwd' = rec2
       /\ sentToBackend' = sentToBackend \cup SentBy(rec2)
       /\ UNCHANGED <<FlowVars, keyCache>>

\* authorizeRequest(tenantConfig, httpMethod, headers)
CallAuthorizeRequest(tenantConfig, httpMethod, headers, apiBaseUrl) ==
    LET rec == NewFwd("authorizeRequest", tenantConfig,
                      ProxyRequest(tenantConfig, httpMethod,
                                   headers.authorization),
                      ThirdParameter(<<tenantConfig, httpMethod, headers>>),
                      apiBaseUrl)
    IN /\ FwdFree
       /\ fwd' = StartAuthorizer(rec)
       /\ UNCHANGED <<FlowVars, keyCache, sentToBackend>>

\* the JWKS fetch of getSigningKey has returned or thrown
AuthorizeRequestKeys(outcome) ==
    LET kid == fwd.passed.authorization.token.kid
        rec2 == AfterAuthorizer(
                    IF outcome = "found"
                    THEN [fwd EXCEPT !.signingKey = JwksKey(kid)]
                    ELSE [fwd EXCEPT !.keyError = getSigningKeyThrows(outcome)],
                    outcome,
                    IF outcome = "found"
                    THEN AfterKey(fwd.tenantConfig, fwd.passed,
                                  fwd.apiBaseUrl)
                    ELSE Rejected(401, "Invalid or expired access token."))
    IN /\ fwd.pc = "keys"
       /\ keyCache' = IF outcome = "found"
                      THEN MapSet(keyCache, CacheKey(fwd.tenantConfig, kid),
                                  [key |-> JwksKey(kid), timestamp |-> now])
                      ELSE keyCache
       /\ fwd' = rec2
       /\ sentToBackend' = sentToBackend \cup SentBy(rec2)
       /\ UNCHANGED FlowVars

\* the route handler behind its two middlewares
CallRoute(tenantConfig, req, accessToken) ==
    LET rec2 == RouteStart([NewFwd("route", tenantConfig, req, NoHeaders,
                                   Null) EXCEPT !.accessToken = accessToken])
    IN /\ FwdFree
       /\ fwd' = rec2
       /\ sentToBackend' = sentToBackend \cup SentBy(rec2)
       /\ UNCHANGED <<FlowVars, keyCache>>

\* the route handler: vault.exchangeOktaAccessToken has returned or thrown
RouteVault(inner, reply) ==
    LET result == exchangeOktaAccessToken(inner, reply)
        outcome == VaultOutcomeOf(result)
        r1 == [fwd EXCEPT !.vaultResult = result,
                          !.vaultReply = <<inner, reply>>]
        rec2 ==
            IF outcome = "ok"
            THEN [r1 EXCEPT !.pc = "backend", !.sent = TRUE,
                            !.vaultedToken = result.accessToken]
            ELSE IF outcome = "needs_linking"
            THEN [r1 EXCEPT !.pc = "ended",
                     !.response = ProxySent(401, "Account Linking Required",
                         "A connected account linking is required to obtain tokens for the backend service. Please re-log in.",
                         NoChars)]
            ELSE IF outcome = "error"
            THEN [r1 EXCEPT !.pc = "ended",
                     !.response = ProxySent(403, "Token Request Failed",
                         "Unable to obtain proper tokens.", NoChars)]
            ELSE \* the await sits outside the try block
                 [r1 EXCEPT !.pc = "ended", !.response = ProxyThrown]
    IN /\ fwd.pc = "vault"
       /\ fwd' = rec2
       /\ sentToBackend' = sentToBackend \cup SentBy(rec2)
       /\ UNCHANGED <<FlowVars, keyCache>>

\* how the request to the backend ends: a status, or an error code
BackendOutcomes == {"200", "503", "ECONNREFUSED", "ETIMEDOUT", "other"}

BackendResponse(outcome) ==
    IF outcome = "200" THEN ProxyRelayed(200)
    ELSE IF outcome = "503" THEN ProxyRelayed(503)
    ELSE IF outcome = "ECONNREFUSED"
    THEN ProxySent(502, "Bad Gateway",
                   "Unable to connect to backend service.", NoChars)
    ELSE IF outcome = "ETIMEDOUT"
    THEN ProxySent(504, "Gateway Timeout",
                   "Backend service request timed out.", NoChars)
    ELSE ProxySent(500, "Internal Server Error",
                   "An error occurred while processing the request.",
                   NoChars)

\* the route handler: the request to the backend has returned or thrown
RouteBackend(outcome) ==
    /\ fwd.pc = "backend"
    /\ fwd' = [fwd EXCEPT !.pc = "ended", !.backend = outcome,
                          !.response = BackendResponse(outcome)]
    /\ UNCHANGED <<FlowVars, keyCache, sentToBackend>>

\* requests the two middlewares let through to the route handler
RouteRequests ==
    { ProxyRequest(tc, "GET", Bearer(Jwt("json", Issuer(tc), "json", "k1",
                                         "valid", NoAud))) :
        tc \in Tenants }

\* The forwarder, the authorizer and the route handler on their own.
NextProxy ==
    \/ \E req \in ProxyRequests, u \in ApiBaseUrls : ProxyReceive(req, u)
    \/ \E tc \in Tenants, a \in AuthorizationValues, u \in ApiBaseUrls :
          CallAuthorizeRequest(tc, "GET", Headers(a), u)
    \/ \E o \in KeyOutcomes : AuthorizeRequestKeys(o)
    \/ \E req \in RouteRequests :
          CallRoute(req.tenantId, req, req.headers.authorization.token)
    \/ \E i \in InnerOutcomes, r \in VaultReplies : RouteVault(i, r)
    \/ \E o \in BackendOutcomes : RouteBackend(o)

SpecProxy == Init /\ [][NextProxy]_vars

\* The clock of the signing-key cache moves between any two steps.
KeyTick ==
    /\ ticks < MaxTicks
    /\ \E d \in {1, KEY_CACHE_TTL - 1} : now' = now + d
    /\ ticks' = ticks + 1
    /\ UNCHANGED <<config, proxyVars, linkLog, nextId, caches, inflight,
                   history, gets>>

\* authorizeRequest and its signing-key cache while the clock moves.
NextKeys ==
    \/ KeyTick
    \/ \E tc \in Tenants, a \in AuthorizationValues, u \in ApiBaseUrls :
          CallAuthorizeRequest(tc, "GET", Headers(a), u)
    \/ \E o \in KeyOutcomes : AuthorizeRequestKeys(o)

SpecKeys == Init /\ [][NextKeys]_vars

\* ---- okta_auth0_exchange.js generateClientAssertion ----
\* the agent's client ids, the token endpoints, the key ids
ClientIds == {"agent-1", "agent-2"}
TokenEndpoints == {"https://idp/v1/token", "https://idp/github/v1/token"}
KeyIds == {"kid-1", "kid-2"}
\* the file at privateKeyPath: a PEM key, or nothing readable
PrivateKeyFiles == {"pem", "missing"}

\* crypto.randomUUID(): the n-th draw
randomUUID(n) == <<"uuid", n>>

\* an expiry of one hour
ExpiryOfAnHour(iat) == iat + 3600

\* exp of the payload
Expiry(iat) == iat + 300

\* jwt.sign(payload, privateKey, {algorithm: 'RS256', keyid: kid})
JwtSign(payload, privateKey, kid) ==
    [header |-> [alg |-> "RS256", typ |-> "JWT", kid |-> kid],
     payload |-> payload, signedWith |-> privateKey]

\* the value generateClientAssertion returns
ClientAssertion(clientId, tokenEndpoint, privateKey, kid, t, jti) ==
    LET iat == t \div 1000 IN
    JwtSign([iss |-> clientId, sub |-> clientId, aud |-> tokenEndpoint,
             iat |-> iat, exp |-> Expiry(iat), jti |-> jti],
            privateKey, kid)

\* generateClientAssertion(clientId, tokenEndpoint, privateKeyPath, kid);
\* fs.readFileSync throws before anything is drawn when the file is missing
GenerateClientAssertion(clientId, tokenEndpoint, privateKeyFile, kid) ==
    /\ Len(assertions) < MaxAssertions
    /\ IF privateKeyFile = "missing"
       THEN UNCHANGED signed
       ELSE /\ uuids' = uuids + 1
            /\ assertions' = Append(assertions,
                  [args |-> <<clientId, tokenEndpoint, privateKeyFile, kid>>,
                   value |-> ClientAssertion(clientId, tokenEndpoint,
                               privateKeyFile, kid, now,
                               randomUUID(uuids + 1))])
    /\ UNCHANGED <<config, now, ticks, nextId, caches, inflight, history,
                   gets, fwd, keyCache, sentToBackend, linkLog, connectBody>>

\* The clock moves between two assertions.
AssertionTick ==
    /\ ticks < MaxTicks
    /\ \E d \in {1, 999} : now' = now + d
    /\ ticks' = ticks + 1
    /\ UNCHANGED <<config, proxyVars, linkLog, nextId, caches, inflight,
                   history, gets>>

\* generateClientAssertion on its own.
NextAssertions ==
    \/ AssertionTick
    \/ \E c \in ClientIds, e \in TokenEndpoints, f \in PrivateKeyFiles,
          k \in KeyIds : GenerateClientAssertion(c, e, f, k)

SpecAssertions == Init /\ [][NextAssertions]_vars

\* ---------------------------------------------------------------------
\* token_vault.js beginConnectedAccountFlow: the body of the connect
\* request. A string is a sequence of pieces; "refresh_token",
\* "offline_access" and " " are pieces of their own and no two other
\* pieces spell one of them when put side by side.
\* ---------------------------------------------------------------------
MaxScopes == 3

\* the scope names a tenant's external_scopes is drawn from:
\* refresh_token, repo, read:org, read:refresh_token
ScopeNames ==
    {<<"refresh_token">>, <<"repo">>, <<"read:", "org">>,
     <<"read:", "refresh_token">>}

RECURSIVE ListsUpTo(_, _)
ListsUpTo(S, n) ==
    IF n = 0 THEN {<< >>}
    ELSE ListsUpTo(S, n - 1) \cup
         {Append(xs, x) : xs \in {l \in ListsUpTo(S, n - 1) : Len(l) = n - 1}, x \in S}

ExternalScopes == ListsUpTo(ScopeNames, MaxScopes)

\* Array.prototype.join(" ")
RECURSIVE Join(_)
Join(xs) ==
    IF Len(xs) = 0 THEN << >>
    ELSE IF Len(xs) = 1 THEN xs[1]
    ELSE xs[1] \o <<" ">> \o Join(Tail(xs))

\* String.prototype.replace with a string pattern: the first occurrence
Replace(text, pattern, replacement) ==
    LET hits == {i \in 1..Len(text) : text[i] = pattern}
    IN IF hits = {} THEN text
       ELSE [text EXCEPT
                ![CHOOSE i \in hits : \A j \in hits : i <= j] = replacement]

\* externalScopes.join(" ").replace("refresh_token", "offline_access")
\*               .split(" "); splitting the empty string gives [""]
finalScopes(externalScopes) ==
    Split(Replace(Join(externalScopes), "refresh_token", "offline_access"),
          " ")

requestBody(connection, completeRedirectUri, state, externalScopes) ==
    [t |-> "body", connection |-> connection,
     redirect_uri |-> completeRedirectUri, state |-> state,
     scopes |-> finalScopes(externalScopes)]

\* beginConnectedAccountFlow builds the body of its connect request for a
\* tenant whose external_scopes is externalScopes
BuildConnectRequest(tenantConfig, externalScopes) ==
    /\ VaultConnection(tenantConfig) # Null
    /\ connectBody' =
           [t |-> "built", externalScopes |-> externalScopes,
            requestBody |-> requestBody(VaultConnection(tenantConfig),
                               "PROXY/connected_account_callback", nextId,
                               externalScopes)]
    /\ UNCHANGED <<config, now, ticks, nextId, caches, inflight, history,
                   gets, fwd, keyCache, sentToBackend, linkLog, assertions,
                   uuids>>

\* the connect request body on its own.
NextScopes ==
    \E tc \in Tenants, xs \in ExternalScopes : BuildConnectRequest(tc, xs)

SpecScopes == Init /\ [][NextScopes]_vars

\* Concurrent logins served within one millisecond.
Next ==
    \/ \E tn \in LoginTenantIds, p \in InboundRequests : Authorize(tn, p)
    \/ \E q \in CallbackRequests : CallbackBegin(q[1], q[2], q[3])
    \/ \E s \in Slots, o \in IdpOutcomes : CallbackIdp(s, o)
    \/ \E s \in Slots, o \in VaultOutcomes : CallbackVault(s, o)
    \/ \E s \in Slots, o \in LinkOutcomes : CallbackLink(s, o)
    \/ \E q \in LinkRequests : LinkBegin(q[1], q[2])
    \/ \E s \in Slots, o \in CompleteOutcomes : LinkComplete(s, o)
    \/ \E b \in TokenBodies : Token(b)

Spec == Init /\ [][Next]_vars

\* One login under a moving clock.
TimedRequests ==
    IF flows = EmptyMap
    THEN {Params(StatePlain, "C1", Sha256Base64Url("v1"), "S256")}
    ELSE {}

NextTimed ==
    \/ Tick
    \/ \E tn \in LoginTenantIds, p \in TimedRequests : Authorize(tn, p)
    \/ \E q \in CallbackRequests : CallbackBegin(q[1], q[2], q[3])
    \/ \E s \in Slots, o \in IdpOutcomes : CallbackIdp(s, o)
    \/ \E s \in Slots, o \in VaultOutcomes : CallbackVault(s, o)
    \/ \E s \in Slots, o \in LinkOutcomes : CallbackLink(s, o)
    \/ \E q \in LinkRequests : LinkBegin(q[1], q[2])
    \/ \E s \in Slots, o \in CompleteOutcomes : LinkComplete(s, o)
    \/ \E b \in TokenBodies : Token(b)

SpecTimed == Init /\ [][NextTimed]_vars

\* tenants.json is read from disk at every lookup: an operator removes a
\* tenant from the file, or puts it back, while the server runs
EditTenantsJson ==
    /\ \E t \in Tenants :
          tenantsJson' = IF t \in tenantsJson THEN tenantsJson \ {t}
                         ELSE tenantsJson \cup {t}
    /\ UNCHANGED <<deployed, proxyVars, linkLog, now, ticks, nextId, caches,
                   inflight, history, gets>>

\* One login while tenants.json is edited.
NextTenants ==
    \/ EditTenantsJson
    \/ \E tn \in LoginTenantIds, p \in TimedRequests : Authorize(tn, p)
    \/ \E q \in CallbackRequests : CallbackBegin(q[1], q[2], q[3])
    \/ \E s \in Slots, o \in IdpOutcomes : CallbackIdp(s, o)
    \/ \E s \in Slots, o \in VaultOutcomes : CallbackVault(s, o)
    \/ \E s \in Slots, o \in LinkOutcomes : CallbackLink(s, o)
    \/ \E q \in LinkRequests : LinkBegin(q[1], q[2])
    \/ \E s \in Slots, o \in CompleteOutcomes : LinkComplete(s, o)
    \/ \E b \in TokenBodies : Token(b)

SpecTenants == Init /\ [][NextTenants]_vars

\* ---------------------------------------------------------------------
\* Properties
\* ---------------------------------------------------------------------

\* the inbound /authorize parameters of the login that return code c
\* belongs to
OriginalParams(c) == flows[minted[c].flow].params

\* the redirect carries the client back to the redirect_uri of login f with
\* the inbound state as its state parameter and the code drawn in this step
RedirectsBack(resp, f) ==
    /\ resp.kind = "sent" /\ resp.status = 302
    /\ UrlBase(resp.location) = <<flows[f].params.redirect_uri>>
    /\ QueryParam(resp.location, "state") = flows[f].params.state
    /\ QueryParam(resp.location, "code") = <<RandomText(nextId)>>
    /\ nextId \notin DOMAIN minted

\* no correlation entry of login f can be retrieved
FlowEntriesGone(f) ==
    /\ CacheGet(oidcCache, f, now) = NoEntry
    /\ CacheGet(outboundRequestsCache, f, now) = NoEntry
    /\ \A l \in DOMAIN connectedAccountsCache :
          connectedAccountsCache[l].oidcState = f =>
             CacheGet(connectedAccountsCache, l, now) = NoEntry
    /\ \A c \in DOMAIN returningAuthorizationCache :
          (c \in DOMAIN minted /\ minted[c].flow = f) =>
             CacheGet(returningAuthorizationCache, c, now) = NoEntry

\* map m2 holds nothing that map m did not hold
NothingWritten(m, m2) ==
    \A k \in DOMAIN m2 : k \in DOMAIN m /\ m2[k] = m[k]

\* the state has no entry that can be retrieved: never issued, already
\* deleted, or older than the TTL
NoRetrievableEntry(st) ==
    \/ st \notin DOMAIN Cache
    \/ now - Cache[st].createdAt > CACHE_TTL_MS

\* C1: for a return code written by a callback, a POST /token request with
\* all required fields that starts after the code has been looked up once
\* is answered 400 invalid_grant; a code answered 200 has been looked up, so
\* no second request for it is answered 200.
C1_SingleUse ==
    /\ redeemed \subseteq lookedUp
    /\ \A b \in GoodBodies :
          b.code \in lookedUp =>
             TokenResponse(b) = Sent(400, "invalid_grant")

\* a code has been redeemed and then presented again
C1_Witness == \E c \in redeemed : c \in replayed

\* C2: POST /token for a code whose /authorize request carried
\* code_challenge_method=S256, with a code_verifier whose
\* base64url(sha256(.)) differs from the stored code_challenge, is answered
\* 400 invalid_grant.
C2_PkceEnforced ==
    [][\A b \in GoodBodies :
          LET e == CacheGet(returningAuthorizationCache, b.code, now) IN
          (/\ Token(b)
           /\ e # NoEntry
           /\ e.originalParameters.t = "URLSearchParams"
           /\ e.originalParameters.code_challenge_method = "S256"
           /\ ~validatePKCE(b.code_verifier,
                            e.originalParameters.code_challenge, "S256"))
          => TokenResponse(b) = Sent(400, "invalid_grant")]_vars

\* C3: in the no-link happy path, POST /token for a return code that
\* GET /callback issued, with the matching verifier and client_id, is
\* answered 200 with the agent access token the IdP returned during that
\* GET /callback and token_type "Bearer".
C3_AgentToken ==
    [][\A b \in GoodBodies :
          (/\ Token(b)
           /\ b.code \in DOMAIN minted
           /\ minted[b.code].by = "callback"
           /\ CacheGet(returningAuthorizationCache, b.code, now) # NoEntry
           /\ OriginalParams(b.code).code_challenge_method = "S256"
           /\ validatePKCE(b.code_verifier,
                           OriginalParams(b.code).code_challenge, "S256")
           /\ b.client_id = OriginalParams(b.code).client_id)
          => /\ TokenResponse(b).status = 200
             /\ TokenResponse(b).access_token = minted[b.code].idpToken
             /\ TokenResponse(b).token_type = "Bearer"]_vars

\* C4: when vault.exchange returns ok during GET /callback for outbound
\* state O, the response redirects to the redirect_uri of the
\* /authorize request that produced O, with that request's state as the
\* state parameter and a fresh code.
C4_StateRoundTrip ==
    [][\A s \in Slots :
          CallbackVault(s, "ok") =>
             RedirectsBack(CallbackVaultResponse(s, "ok"),
                           inflight[s].state)]_vars

\* C5: when complete-link succeeds during GET /connected_account_callback,
\* the response redirects to the redirect_uri of the login the link
\* belongs to, with that login's inbound state and a fresh code.
C5_LinkRoundTrip ==
    [][\A s \in Slots, us \in UpstreamStatuses :
          LinkComplete(s, "ok") =>
             RedirectsBack(LinkCompleteResponse(s, "ok", us),
                           inflight[s].cachedData.oidcState)]_vars

\* C6: in each correlation cache, a get of key k made at most 900 s after
\* the entry was stored returns the entry and keeps it; a get made more
\* than 900 s after it was stored returns absent and removes the entry, and
\* a later get of the map it leaves returns absent.
C6_TtlWindow ==
    \A m \in {oidcCache, outboundRequestsCache, connectedAccountsCache,
              returningAuthorizationCache} :
       \A k \in DOMAIN m :
          IF now - m[k].createdAt <= CACHE_TTL_MS
          THEN /\ CacheGet(m, k, now) = m[k]
               /\ CacheAfterGet(m, k, now) = m
          ELSE /\ CacheGet(m, k, now) = NoEntry
               /\ k \notin DOMAIN CacheAfterGet(m, k, now)
               /\ \A d \in {0, 1, CACHE_TTL_MS} :
                     CacheGet(CacheAfterGet(m, k, now), k, now + d) = NoEntry

\* a get has found an entry exactly 900 s old, and a get has removed an
\* entry older than that
C6_Witness == hitAtTtl # {} /\ evicted # {}

\* C7: after an error response of GET /callback or
\* GET /connected_account_callback that belongs to login f (IdP error
\* parameter, vault error, begin-link failure, upstream exception,
\* complete-link failure), no correlation entry of f can be retrieved.
C7_ErrorEvicts ==
    [][\A f \in DOMAIN flows :
          (\/ \E q \in CallbackRequests :
                 q[1] = f /\ q[3] # Null /\ CallbackBegin(q[1], q[2], q[3])
           \/ \E s \in Slots :
                 /\ inflight[s].route = "callback"
                 /\ inflight[s].state = f
                 /\ \/ \E o \in IdpOutcomes \ {"ok"} : CallbackIdp(s, o)
                    \/ \E o \in {"error", "throws"} : CallbackVault(s, o)
                    \/ \E o \in LinkOutcomes \ {"ok"} : CallbackLink(s, o)
           \/ \E s \in Slots :
                 /\ inflight[s].route = "link"
                 /\ inflight[s].cachedData.oidcState = f
                 /\ \E o \in CompleteOutcomes \ {"ok"} : LinkComplete(s, o))
          => FlowEntriesGone(f)']_vars

\* C8: the entry of an outbound state cannot be retrieved more than 900 s
\* after GET /authorize created it.
C8_TtlFromCreation ==
    \A k \in DOMAIN flows :
       now - flows[k].at > CACHE_TTL_MS => CacheGet(Cache, k, now) = NoEntry

\* C9: GET /callback that carries a code and no error parameter, and whose
\* state has no retrievable entry (never issued, already deleted, or
\* older than 900 s), is answered 400 invalid_state before any upstream
\* call and leaves no entry in the cache that was not there.
C9_StaleState ==
    \A q \in CallbackRequests :
       (/\ q[1] # NoKey /\ q[2] # Null /\ q[3] = Null
        /\ NoRetrievableEntry(q[1])) =>
          /\ CallbackBeginResponse(q[1], q[2], q[3])
                = Sent(400, "invalid_state")
          /\ NothingWritten(Cache, CallbackBeginCache(q[1], q[2], q[3]))

\* GET /callback has removed the expired entry of an outbound state
C9_Witness == deployed = "oidc" /\ evicted \cap DOMAIN flows # {}

\* C9 as stated: GET /callback whose state has no retrievable entry is
\* answered 400 invalid_state, whatever else the request carries.
C9_AnyRequest ==
    \A q \in CallbackRequests :
       (q[1] # NoKey /\ NoRetrievableEntry(q[1])) =>
          CallbackBeginResponse(q[1], q[2], q[3])
             = Sent(400, "invalid_state")

\* C10: POST /token answers 200 only if the request's client_id equals the
\* client_id of the /authorize request of the login that issued the code.
C10_ClientBound ==
    [][\A b \in GoodBodies :
          (Token(b) /\ TokenResponse(b).status = 200) =>
             b.client_id = OriginalParams(b.code).client_id]_vars

\* ---- the forwarder ----

\* the request carries a bearer JWT issued by the tenant's issuer, validly
\* signed and unexpired, with no audience restriction in play
ValidBearerFor(req, tenantConfig) ==
    /\ req.headers.authorization.scheme = "Bearer"
    /\ LET j == req.headers.authorization.token IN
       /\ j.body = "json" /\ j.header = "json"
       /\ j.iss = Issuer(tenantConfig)
       /\ j.verify = "valid" /\ j.aud = NoAud

\* C11: a request that came in through the mounted route for a resolvable
\* tenant with a vault connection, with a valid bearer JWT of the tenant's
\* issuer, whose key fetch, vault exchange and backend call did not fail,
\* ends with the backend's status relayed, after a backend request that
\* carried Authorization: Bearer D for the downstream token D the vault
\* returned.
C11_Forwarded ==
    (/\ fwd.pc = "ended" /\ fwd.unit = "middleware"
     /\ fwd.tenantConfig # Null
     /\ VaultConnection(fwd.tenantConfig) # Null
     /\ ValidBearerFor(fwd.req, fwd.tenantConfig)
     /\ fwd.key \notin {"not_found", "network_error"}
     /\ \/ fwd.vaultResult = NoResult
        \/ fwd.vaultResult = VaultResult(TRUE, FALSE, Downstream)
     /\ fwd.backend \notin {"ECONNREFUSED", "ETIMEDOUT", "other"})
    => /\ fwd.sent
       /\ fwd.response.relayed
       /\ BackendRequest(fwd).headers["Authorization"] = Bearer(Downstream)

\* C12: when vault.exchange returned needs_linking the forwarder answers
\* 401 with the message "Account linking required" and a WWW-Authenticate
\* header, and sends nothing to the backend.
C12_NeedsLinking401 ==
    (/\ fwd.pc = "ended"
     /\ fwd.vaultResult.t = "result" /\ fwd.vaultResult.needsLinking)
    => /\ fwd.response.status = 401
       /\ fwd.response.message = "Account linking required"
       /\ fwd.response.www_authenticate # NoChars
       /\ ~fwd.sent

\* C13: every request sent to a backend has no Authorization header or
\* exactly Bearer D for the downstream token D that vault.exchange returned
\* for that request; it never carries the inbound Authorization value, the
\* inbound bearer token or a Host header.
C13_NoInboundCredentials ==
    \A r \in sentToBackend :
       /\ "Host" \notin DOMAIN r.headers
       /\ "Authorization" \in DOMAIN r.headers =>
             /\ r.vaulted.t = "result" /\ r.vaulted.success
             /\ r.headers["Authorization"] = Bearer(r.vaulted.accessToken)
             /\ r.headers["Authorization"] # r.inbound.headers.authorization
             /\ r.headers["Authorization"].token #
                    r.inbound.headers.authorization.token

C13_Witness ==
    \E r \in sentToBackend :
       /\ "Authorization" \in DOMAIN r.headers
       /\ r.inbound.headers.authorization.scheme = "Bearer"
       /\ r.inbound.headers.host # Null

\* C14: authorizeRequest returns ok, with the raw token, only for a bearer
\* token whose iss is the tenant's issuer and that njwt.verify accepted
\* under a key from the cache or the JWKS; a parsable token with another
\* iss gets 403; a missing or malformed header, a body or header that does
\* not parse, a failed key fetch and a failed verification get 401.
C14_AuthorizerVerdict ==
    (fwd.pc # "idle" /\ fwd.authResult # NoResult) =>
       LET h == fwd.passed
           res == fwd.authResult
           bearer == h.t = "headers" /\ h.authorization.scheme = "Bearer"
           j == h.authorization.token
           issOk == j.iss = Issuer(fwd.tenantConfig)
       IN /\ res.success =>
                /\ bearer /\ j.body = "json" /\ issOk
                /\ j.verify = "valid"
                /\ fwd.key \in {"cached", "found"}
                /\ res.token = j
          /\ (bearer /\ j.body = "json" /\ ~issOk) =>
                (~res.success /\ res.statusCode = 403)
          /\ (\/ ~bearer
              \/ j.body # "json"
              \/ issOk /\ \/ j.header # "json"
                          \/ fwd.key \in {"not_found", "network_error"}
                          \/ j.verify # "valid") =>
                (~res.success /\ res.statusCode = 401)

C14_Witness ==
    /\ fwd.pc = "ended" /\ fwd.unit = "authorizeRequest"
    /\ fwd.authResult.success /\ fwd.key = "found"

\* C15: vault.exchange reports needs_linking exactly when the vault's
\* /oauth/token reply is a 401 with error
\* federated_connection_refresh_token_not_found; every other failure gives
\* a result with success = false and needsLinking = false, and no result
\* has both true.
C15_NeedsLinkingOnly ==
    (fwd.pc # "idle" /\ fwd.vaultResult # NoResult) =>
       LET res == fwd.vaultResult
           inner == fwd.vaultReply[1]
           reply == fwd.vaultReply[2]
       IN /\ res.t = "result"
          /\ ~(res.success /\ res.needsLinking)
          /\ res.needsLinking <=>
                (inner = "token" /\ reply = "401_refresh_token_not_found")
          /\ (inner # "token" \/ reply \notin {"200", "200_no_token"}) =>
                ~res.success

\* ---- the login flow, continued ----

\* C16: when the tenant id of the OIDC-Outbound entry does not resolve at
\* the time GET /callback runs, and the IdP login itself succeeds, the
\* flow fails with error invalid_request.
C16_TenantGone ==
    \A s \in Slots, us \in UpstreamStatuses :
       (/\ inflight[s].route = "callback" /\ inflight[s].pc = "idp"
        /\ inflight[s].tenant = Null)
       => /\ CallbackIdpResponse(s, "ok", us).kind = "sent"
          /\ CallbackIdpResponse(s, "ok", us).error = "invalid_request"

\* the map the deployed /authorize and /callback do not use
OtherCache == IF deployed = "oidc" THEN outboundRequestsCache ELSE oidcCache

\* C17: an OIDC-Outbound entry is the one GET /authorize wrote, with null
\* for the token, until GET /callback has received needs_linking and a
\* successful begin-link for its state and stored it again; nothing else
\* writes OIDC-Outbound entries.
C17_NoTokenUntilStaged ==
    /\ OtherCache = EmptyMap
    /\ \A k \in DOMAIN Cache :
          /\ k \in DOMAIN flows
          /\ k \notin staged =>
                /\ Cache[k].accessToken = Null
                /\ Cache[k].originalParameters = flows[k].params
                /\ Cache[k].tenantId = flows[k].tenantId
                /\ Cache[k].createdAt = flows[k].at

C17_Witness ==
    \E k \in DOMAIN Cache, k2 \in DOMAIN Cache :
       /\ k \in staged /\ Cache[k].accessToken # Null
       /\ k2 \notin staged

\* C18: no retrievable return code exists for a login whose OIDC-Outbound
\* entry is still retrievable.
C18_CodeExcludesEntry ==
    \A c \in DOMAIN returningAuthorizationCache :
       (/\ c \in DOMAIN minted
        /\ CacheGet(returningAuthorizationCache, c, now) # NoEntry)
       => /\ CacheGet(oidcCache, minted[c].flow, now) = NoEntry
          /\ CacheGet(outboundRequestsCache, minted[c].flow, now) = NoEntry

\* what happened upstream when the IdP chain ended with outcome o
IdpUpstream(o) ==
    IF o \in {"login_response", "jag_response", "token_response"}
    THEN "response"
    ELSE IF o \in {"login_no_response", "jag_no_response",
                   "token_no_response"}
    THEN "no_response" ELSE "local"

\* C19: when a step of the IdP chain of GET /callback fails, the status is
\* the upstream's own if the upstream responded, 502 if the request was
\* sent and no response came, and 500 if the failure was local.
C19_UpstreamStatus ==
    \A s \in Slots, o \in IdpOutcomes \ {"ok"}, us \in UpstreamStatuses :
       (/\ inflight[s].route = "callback" /\ inflight[s].pc = "idp"
        /\ inflight[s].tenant # Null)
       => CallbackIdpResponse(s, o, us).status =
             CatchStatus(IdpUpstream(o), us)

\* C20: GET /callback answers 403 for every failure of vault.exchange other
\* than needs_linking and for every failure to begin the link.
C20_VaultFailure403 ==
    \A s \in Slots :
       /\ (inflight[s].route = "callback" /\ inflight[s].pc = "vault") =>
             \A o \in VaultOutcomes \ {"ok", "needs_linking"} :
                CallbackVaultResponse(s, o).status = 403
       /\ (inflight[s].route = "callback" /\ inflight[s].pc = "link") =>
             \A o \in LinkOutcomes \ {"ok"} :
                CallbackLinkResponse(s, o).status = 403
\* the token's aud contains (an array) or equals or starts with (a string)
\* the expected audience
AudMatches(aud, expectedAudience) ==
    \/ aud.t = "array" /\ expectedAudience \in aud.v
    \/ aud.t = "string" /\ StartsWith(aud.v, expectedAudience)

\* C21: with API_BASE_URL set, a token that got as far as the audience
\* test (trusted issuer, key found, njwt.verify passed) is accepted only if
\* its aud contains, equals or starts with the expected audience
\* API_BASE_URL/tenant; every other such token, one with no aud claim
\* included, is rejected with 403.
C21_AudienceRequired ==
    (/\ fwd.pc # "idle" /\ fwd.authResult # NoResult
     /\ fwd.apiBaseUrl # Null
     /\ fwd.key \in {"cached", "found"}
     /\ fwd.passed.authorization.token.verify = "valid") =>
       LET aud == fwd.passed.authorization.token.aud
           matches == AudMatches(aud, ExpectedAudience(fwd.apiBaseUrl,
                                                       fwd.tenantConfig))
       IN /\ fwd.authResult.success => matches
          /\ ~matches => (~fwd.authResult.success
                            /\ fwd.authResult.statusCode = 403)

\* C22: a call of getSigningKey that finds an entry for its (url, kid)
\* less than 3600 s old returns the entry's key without a fetch and leaves
\* the entry alone; a call that finds none, or one 3600 s old or older,
\* fetches; a fetch that fails or finds no key of that kid leaves the cache
\* as the call found it, and a fetch that finds the key stores it.
C22_KeyCacheWindow ==
    (fwd.pc # "idle" /\ (fwd.pc = "keys" \/ fwd.key # "not_needed")) =>
       LET kid == fwd.passed.authorization.token.kid
           e == fwd.seen
           entry == KeyCacheGet(fwd.tenantConfig, kid)
           fresh == e # NoEntry /\ fwd.at - e.timestamp < 3600 * 1000
       IN /\ fresh => (fwd.key = "cached" /\ fwd.signingKey = e.key
                          /\ entry = e)
          /\ ~fresh => (fwd.pc = "keys" \/ fwd.key \in KeyOutcomes)
          /\ fwd.key \in {"not_found", "network_error"} =>
                (entry = e /\ fwd.signingKey = NoEntry)
          /\ fwd.key = "found" =>
                (entry # NoEntry /\ entry.key = fwd.signingKey
                    /\ entry.key.kid = kid /\ entry.timestamp >= fwd.at)

\* a call that finds an entry exactly 3600 s old is fetching
C22_Witness ==
    /\ fwd.pc = "keys" /\ fwd.seen # NoEntry
    /\ fwd.at - fwd.seen.timestamp = 3600 * 1000

\* a call that finds an entry one millisecond younger got the cached key
C22_WitnessHit ==
    /\ fwd.pc = "ended" /\ fwd.key = "cached"
    /\ fwd.at - fwd.seen.timestamp = 3600 * 1000 - 1

\* C23: every client assertion built has iss = sub = clientId,
\* aud = tokenEndpoint, exp - iat = 300 and the kid in its header, and no
\* two assertions carry the same jti.
C23_ClientAssertion ==
    \A i \in 1..Len(assertions) :
       LET a == assertions[i] IN
       /\ a.value.payload.iss = a.args[1]
       /\ a.value.payload.sub = a.args[1]
       /\ a.value.payload.aud = a.args[2]
       /\ a.value.payload.exp - a.value.payload.iat = 300
       /\ a.value.header.kid = a.args[4]
       /\ \A j \in 1..Len(assertions) :
             i # j => a.value.payload.jti # assertions[j].value.payload.jti

\* two assertions built from the same arguments within the same second
C23_Witness ==
    /\ Len(assertions) >= 2
    /\ assertions[1].args = assertions[2].args
    /\ assertions[1].value.payload.iat = assertions[2].value.payload.iat
    /\ assertions[1].value.payload.iat = 1

C25_OneCompleteLink ==
    \A st \in DOMAIN linkLog :
       /\ linkLog[st].calls <= 1
       /\ st \notin DOMAIN connectedAccountsCache
       /\ LinkBeginResponse(st, "CC1") = Sent(400, "Invalid or Expired State")
       /\ Cardinality({s \in Slots : /\ inflight[s].route = "link"
                                     /\ inflight[s].state = st}) <= 1

\* a second request for a link state arrived while the first was waiting
\* for complete-link, and was refused
C25_Witness ==
    \E st \in DOMAIN linkLog, s \in Slots :
       /\ linkLog[st].refused /\ linkLog[st].calls = 1
       /\ inflight[s].route = "link" /\ inflight[s].state = st

\* C26: a return code that GET /connected_account_callback minted belongs
\* to a login whose entry GET /callback stored again, and carries the agent
\* access token the IdP issued to that login; every POST /token that is
\* answered 200 for the code returns that token.
C26_LinkCodeCarriesStaged ==
    \A c \in DOMAIN returningAuthorizationCache :
       (c \in DOMAIN minted /\ minted[c].by = "link") =>
          /\ minted[c].flow \in staged
          /\ returningAuthorizationCache[c].accessToken =
                AgentTokenOf(minted[c].flow)
          /\ \A b \in GoodBodies :
                (b.code = c /\ TokenResponse(b).status = 200) =>
                   TokenResponse(b).access_token =
                      AgentTokenOf(minted[c].flow)

\* a code minted by the link callback is in the cache and POST /token
\* would answer 200 for it
C26_Witness ==
    \E c \in DOMAIN returningAuthorizationCache, b \in GoodBodies :
       /\ c \in DOMAIN minted /\ minted[c].by = "link"
       /\ b.code = c /\ TokenResponse(b).status = 200

C28_CodeRecordsOrigin ==
    \A c \in DOMAIN returningAuthorizationCache :
       (c \in DOMAIN minted /\ minted[c].by = "callback") =>
          LET e == returningAuthorizationCache[c]
              f == flows[minted[c].flow]
          IN /\ e.originalState = f.params.state
             /\ e.tenantId = f.tenantId
             /\ e.originalParameters = f.params

\* C29: for every outbound state, at most one return code has ever been
\* written for its login, and at most one LinkSession is stored for it.
C29_OncePerState ==
    \A st \in DOMAIN flows :
       /\ Cardinality({c \in DOMAIN minted : minted[c].flow = st}) <= 1
       /\ Cardinality({k \in DOMAIN connectedAccountsCache :
                          connectedAccountsCache[k].oidcState = st}) <= 1

\* C30: for a GET /connected_account_callback that waits for
\* complete-link, a successful complete-link finds a retrievable entry
\* under the LinkSession's oidcState with a staged agent token, and the
\* answer is the redirect to the client, not a 5xx.
C30_LinkFindsEntry ==
    \A s \in Slots, us \in UpstreamStatuses :
       (inflight[s].route = "link" /\ inflight[s].pc = "complete") =>
          /\ LinkOidcCachedData(s) # NoEntry
          /\ LinkOidcCachedData(s).accessToken \notin {Null, Undefined}
          /\ LinkCompleteResponse(s, "ok", us).kind = "sent"
          /\ LinkCompleteResponse(s, "ok", us).status = 302

\* the body has another grant type than authorization_code, or lacks
\* code, client_id, code_verifier or redirect_uri
Malformed(b) ==
    \/ b.grant_type # "authorization_code"
    \/ b.code = NoKey \/ b.client_id = Null
    \/ b.code_verifier = Null \/ b.redirect_uri = Null

\* C31: a POST /token whose grant type is not authorization_code is
\* answered 400 unsupported_grant_type, one that lacks a required field 400
\* invalid_request, and either leaves the Return-Code map as it is: what a
\* well-formed request for the same code is answered is the same before and
\* after.
C31_RejectedKeepsCode ==
    \A b \in TokenBodies :
       Malformed(b) =>
          /\ TokenResponse(b) =
                Sent(400, IF b.grant_type # "authorization_code"
                          THEN "unsupported_grant_type"
                          ELSE "invalid_request")
          /\ TokenCacheAfter(b) = returningAuthorizationCache

\* a return code is in the map, a malformed request names it, and a
\* well-formed request for it would be answered 200
C31_Witness ==
    \E b \in BadBodies, g \in GoodBodies :
       /\ b.code \in DOMAIN returningAuthorizationCache
       /\ b.client_id = Null
       /\ g.code = b.code /\ TokenResponse(g).status = 200

\* C32: a return code that a POST /token with the right grant type and
\* all four fields has looked up is gone from the map, whatever that
\* request was answered, and every well-formed request that names it is
\* answered 400 invalid_grant.
C32_LookupConsumes ==
    /\ \A c \in lookedUp :
          /\ c \notin DOMAIN returningAuthorizationCache
          /\ \A g \in GoodBodies :
                g.code = c => TokenResponse(g) = Sent(400, "invalid_grant")
    /\ \A b \in GoodBodies : b.code \notin DOMAIN TokenCacheAfter(b)

\* a code was looked up by a request that was rejected for a missing
\* code_challenge or another client_id
C32_Witness ==
    \E c \in lookedUp \ redeemed :
       LET p == flows[minted[c].flow].params IN
       /\ deployed = "outbound"
       /\ p.code_challenge = NoChars \/ p.client_id # Null

C34_HandlerResponds ==
    (fwd.pc = "ended" /\ fwd.unit \in {"middleware", "route"}) =>
        fwd.response.kind \in {"sent", "relayed"}


\* C35: begin-link stores a Link-Session only when the connect call
\* succeeded: the session goes under the fresh link state, which no stored
\* session has yet, carries that state and the outbound state of the
\* /callback request as oidcState, and leaves the other sessions alone;
\* when the preliminary exchange or the connect call fails the store is
\* unchanged. Every stored session is therefore keyed by its own state and
\* belongs to a login whose begin-link succeeded.
C35_LinkSessionOnSuccess ==
    /\ \A s \in Slots :
          (inflight[s] # Idle /\ inflight[s].route = "callback"
              /\ inflight[s].pc = "link") =>
            \A o \in LinkOutcomes :
              LET after == beginConnectedAccountFlow(connectedAccountsCache,
                               o, nextId, inflight[s].state, now)
              IN IF o = "ok"
                 THEN /\ nextId \notin DOMAIN connectedAccountsCache
                      /\ DOMAIN after =
                             DOMAIN connectedAccountsCache \cup {nextId}
                      /\ after[nextId].state = nextId
                      /\ after[nextId].oidcState = inflight[s].state
                      /\ \A k \in DOMAIN connectedAccountsCache :
                             after[k] = connectedAccountsCache[k]
                 ELSE after = connectedAccountsCache
    /\ \A k \in DOMAIN connectedAccountsCache :
          /\ connectedAccountsCache[k].state = k
          /\ connectedAccountsCache[k].oidcState \in staged
\* a /callback request waits for begin-link while the session of an
\* earlier login, whose begin-link succeeded, is in the store
C35_Witness ==
    /\ \E k \in DOMAIN connectedAccountsCache :
          connectedAccountsCache[k].oidcState \in staged
    /\ \E s \in Slots :
          /\ inflight[s] # Idle /\ inflight[s].route = "callback"
          /\ inflight[s].pc = "link"
          /\ inflight[s].state \notin staged


\* the list with every element equal to refresh_token replaced by
\* offline_access and every other element as it was
Substituted(xs) ==
    [i \in 1..Len(xs) |->
        IF xs[i] = <<"refresh_token">> THEN <<"offline_access">> ELSE xs[i]]

\* C36: the scopes of the connect request body are the tenant's
\* external_scopes in the same order, with every element equal to
\* refresh_token replaced by offline_access and every other element
\* unchanged.
C36_ScopesSubstituted ==
    connectBody.t = "built" =>
        connectBody.requestBody.scopes = Substituted(connectBody.externalScopes)


\* C37: the error authorizeRequest catches from getSigningKey when the
\* JWKS document was fetched but no single entry matches the kid is not
\* the error it catches when the document could not be fetched, and the
\* other way round: the caller can tell the two failures apart.
C37_KeyErrorsDistinct ==
    /\ (fwd.pc # "idle" /\ fwd.key = "not_found") =>
          fwd.keyError # getSigningKeyThrows("network_error")
    /\ (fwd.pc # "idle" /\ fwd.key = "network_error") =>
          fwd.keyError # getSigningKeyThrows("not_found")


====
